---- MODULE Spec2Model ----
(***************************************************************************)
(* A model of the faster-whisper serverless worker: the Predictor class    *)
(* (src/src/predict.py) with its model holder, its lock and its predict    *)
(* call, and the transcript formatters format_segments, write_srt and      *)
(* write_vtt.                                                               *)
(*                                                                          *)
(* Python strings are sequences of one-character strings.  Times are held  *)
(* in milliseconds, the unit format_timestamp rounds to before it prints.  *)
(***************************************************************************)
EXTENDS Integers, Sequences, FiniteSets, TLC

\* ------------------------------------------------------------------ bounds

\* Predict requests that may run concurrently (threads 1..NumRequests).
NumRequests == 2
\* Calls of setup() over the life of one Predictor.
MaxSetupCalls == 2
\* Segments of a transcript handed to the formatters.
MaxSegs == 2
\* Characters of segment text, summed over a transcript.
MaxChars == 4

\* ----------------------------------------------------------------- strings

\* The characters segment texts are drawn from.
Alphabet == {"-", ">", " "}

NL == "\n"

Whitespace == {" ", NL}

\* str.lstrip()
RECURSIVE lstrip(_)
lstrip(s) ==
    IF s # <<>> /\ Head(s) \in Whitespace THEN lstrip(Tail(s)) ELSE s

\* str.rstrip()
RECURSIVE rstrip(_)
rstrip(s) ==
    IF s # <<>> /\ s[Len(s)] \in Whitespace
    THEN rstrip(SubSeq(s, 1, Len(s) - 1))
    ELSE s

\* str.strip()
strip(s) == rstrip(lstrip(s))

StartsWith(s, p) == Len(s) >= Len(p) /\ SubSeq(s, 1, Len(p)) = p

\* str.replace(old, new): one left-to-right scan over non-overlapping
\* occurrences of old; the text written is never scanned again.
RECURSIVE replace(_, _, _)
replace(s, old, new) ==
    IF s = <<>> THEN <<>>
    ELSE IF StartsWith(s, old)
         THEN new \o replace(SubSeq(s, Len(old) + 1, Len(s)), old, new)
         ELSE <<Head(s)>> \o replace(Tail(s), old, new)

\* sep.join(parts)
RECURSIVE join(_, _)
join(sep, parts) ==
    IF parts = <<>> THEN <<>>
    ELSE IF Len(parts) = 1 THEN parts[1]
    ELSE parts[1] \o sep \o join(sep, Tail(parts))

Digit(d) == CASE d = 0 -> "0" [] d = 1 -> "1" [] d = 2 -> "2" [] d = 3 -> "3"
              [] d = 4 -> "4" [] d = 5 -> "5" [] d = 6 -> "6" [] d = 7 -> "7"
              [] d = 8 -> "8" [] d = 9 -> "9"

\* f"{n}" of a natural number
RECURSIVE Decimal(_)
Decimal(n) == IF n < 10 THEN <<Digit(n)>> ELSE Decimal(n \div 10) \o <<Digit(n % 10)>>

\* f"{n:0wd}": zero-padded to at least w digits
RECURSIVE ZeroPad(_, _)
ZeroPad(n, w) ==
    LET d == Decimal(n) IN
    IF Len(d) >= w THEN d ELSE [i \in 1..(w - Len(d)) |-> "0"] \o d

\* faster_whisper.utils.format_timestamp, on the rounded millisecond count
format_timestamp(ms, always_include_hours, decimal_marker) ==
    LET hours   == ms \div 3600000
        r1      == ms - hours * 3600000
        minutes == r1 \div 60000
        r2      == r1 - minutes * 60000
        seconds == r2 \div 1000
        millis  == r2 - seconds * 1000
        hours_marker == IF always_include_hours \/ hours > 0
                        THEN ZeroPad(hours, 2) \o <<":">>
                        ELSE <<>>
    IN hours_marker \o ZeroPad(minutes, 2) \o <<":">> \o ZeroPad(seconds, 2)
         \o <<decimal_marker>> \o ZeroPad(millis, 3)

Arrow == <<"-", "-", ">">>
ShortArrow == <<"-", ">">>
ArrowSep == <<" ">> \o Arrow \o <<" ">>

\* ------------------------------------------------------------- formatters

\* The text line of a subtitle block: segment.text.strip().replace('-->', '->')
CueText(segment) == replace(strip(segment.text), Arrow, ShortArrow)

\* One pass of write_vtt's loop body.
VttBlock(segment) ==
    format_timestamp(segment.start, TRUE, ".") \o ArrowSep
        \o format_timestamp(segment.end, TRUE, ".") \o <<NL>>
        \o CueText(segment) \o <<NL>>
        \o <<NL>>

SrtBlock_ZeroBased(i, segment) ==
    Decimal(i - 1) \o <<NL>>
        \o format_timestamp(segment.start, TRUE, ",") \o ArrowSep
        \o format_timestamp(segment.end, TRUE, ",") \o <<NL>>
        \o CueText(segment) \o <<NL>>
        \o <<NL>>

\* One pass of write_srt's loop body, i the 1-based index of enumerate.
SrtBlock(i, segment) ==
    Decimal(i) \o <<NL>>
        \o format_timestamp(segment.start, TRUE, ",") \o ArrowSep
        \o format_timestamp(segment.end, TRUE, ",") \o <<NL>>
        \o CueText(segment) \o <<NL>>
        \o <<NL>>

RECURSIVE VttFrom(_, _)
VttFrom(transcript_, i) ==
    IF i > Len(transcript_) THEN <<>>
    ELSE VttBlock(transcript_[i]) \o VttFrom(transcript_, i + 1)

write_vtt(transcript_) == VttFrom(transcript_, 1)

RECURSIVE SrtFrom(_, _)
SrtFrom(transcript_, i) ==
    IF i > Len(transcript_) THEN <<>>
    ELSE SrtBlock(i, transcript_[i]) \o SrtFrom(transcript_, i + 1)

write_srt(transcript_) == SrtFrom(transcript_, 1)

LStripTexts(segments) == [i \in 1..Len(segments) |-> lstrip(segments[i].text)]

FormatTypes == {"plain_text", "formatted_text", "srt", "vtt", "json"}

format_segments(format_type, segments) ==
    IF format_type = "plain_text" THEN join(<<" ">>, LStripTexts(segments))
    ELSE IF format_type = "formatted_text" THEN join(<<NL>>, LStripTexts(segments))
    ELSE IF format_type = "srt" THEN write_srt(segments)
    ELSE IF format_type = "vtt" THEN write_vtt(segments)
    ELSE join(<<" ">>, LStripTexts(segments))

\* ------------------------------------------------------------ the program

\* An optional value: None is the empty tuple, a value v is <<v>>.
None == <<>>
Some(v) == <<v>>

\* Only large-v2 is available.
AVAILABLE_MODELS == {"large-v2"}

Requests == 1..NumRequests

\* self.model before any load: the None of Predictor.__init__.
NoModel == [id |-> 0, device |-> "none", compute_type |-> "none", cpu_threads |-> 0]

\* WhisperModel("large-v2", device=..., compute_type=..., cpu_threads=...):
\* the instance a successful load constructs, id the ordinal of the load.
WhisperModel(id, cuda) ==
    [id |-> id,
     device |-> IF cuda THEN "cuda" ELSE "cpu",
     compute_type |-> IF cuda THEN "float16" ELSE "int8",
     cpu_threads |-> IF ~cuda THEN 4 ELSE 0]

Word(w, s, e) == [word |-> w, start |-> s, end |-> e]

Segment(id, s, e, text, words) ==
    [id |-> id, start |-> s, end |-> e, text |-> text, words |-> words]

\* What the external model may hand back from one transcribe call.
ShortOutput ==
    [segments |-> << Segment(0, 0, 1500, <<" ", "h", "i", " ">>,
                             << Word(<<"h", "i">>, 0, 1500) >>) >>,
     language |-> "en"]

LongOutput ==
    [segments |-> << Segment(0, 0, 900, <<" ", "a", "-", "-", ">", "b">>,
                             << Word(<<"a">>, 0, 400), Word(<<"b">>, 500, 900) >>),
                     Segment(1, 3599999, 3723004, <<" ", "c">>,
                             << Word(<<"c">>, 3599999, 3723004) >>) >>,
     language |-> "fr"]

TranscribeOutputs == {ShortOutput, LongOutput}

\* predict's keyword defaults (temperatures and thresholds in tenths).
DefaultDecoding ==
    [transcription |-> "plain_text", translation |-> "plain_text",
     language |-> None, temperature |-> 0, best_of |-> 5, beam_size |-> 5,
     patience |-> 1, length_penalty |-> None,
     suppress_tokens |-> <<"-", "1">>, initial_prompt |-> None,
     condition_on_previous_text |-> TRUE,
     temperature_increment_on_fallback |-> Some(2),
     compression_ratio_threshold |-> 24, logprob_threshold |-> -10,
     no_speech_threshold |-> 6, enable_vad |-> FALSE,
     vad_parameters |-> None, word_timestamps |-> FALSE]

\* A caller that sets every decoding parameter.
CallerDecoding ==
    [transcription |-> "srt", translation |-> "vtt",
     language |-> Some("fr"), temperature |-> 5, best_of |-> 3, beam_size |-> 2,
     patience |-> 2, length_penalty |-> Some(1),
     suppress_tokens |-> <<"0", ",", "1">>, initial_prompt |-> Some("names"),
     condition_on_previous_text |-> FALSE,
     temperature_increment_on_fallback |-> None,
     compression_ratio_threshold |-> 20, logprob_threshold |-> -5,
     no_speech_threshold |-> 4, enable_vad |-> TRUE,
     vad_parameters |-> Some("min_silence"), word_timestamps |-> TRUE]

\* The arguments of one predict call.
PredictArgs(model_name, translate, decoding) ==
    [audio |-> "audio.wav", model_name |-> model_name, translate |-> translate,
     decoding |-> decoding]

\* Every call: either model name, with and without translation, with the
\* defaults and with every decoding parameter set.
Inputs ==
    { PredictArgs(n, t, d) : n \in {"base", "large-v2"}, t \in BOOLEAN,
                             d \in {DefaultDecoding, CallerDecoding} }

\* The calls that leave every keyword but model_name at its default.
DefaultInputs ==
    { PredictArgs(n, FALSE, DefaultDecoding) : n \in {"base", "large-v2"} }

\* np.arange(start, stop, step) for a positive step
RECURSIVE arange(_, _, _)
arange(start, stop, step) ==
    IF start >= stop THEN <<>> ELSE <<start>> \o arange(start + step, stop, step)

\* 1.0 + 1e-6 in tenths: the first whole tenth past the end of the ladder.
LadderStop == 11

\* Lines 114-119: the temperature ladder, or the single temperature.
TemperatureConfig(temperature, increment) ==
    IF increment # None
    THEN arange(temperature, LadderStop, increment[1])
    ELSE <<temperature>>

\* Lines 125-147: the keyword arguments of the transcription pass.
TranscribeKwargs(a, temperature) ==
    [audio |-> a.audio,
     language |-> a.decoding.language,
     task |-> "transcribe",
     beam_size |-> a.decoding.beam_size,
     best_of |-> a.decoding.best_of,
     patience |-> a.decoding.patience,
     length_penalty |-> a.decoding.length_penalty,
     temperature |-> temperature,
     compression_ratio_threshold |-> a.decoding.compression_ratio_threshold,
     log_prob_threshold |-> a.decoding.logprob_threshold,
     no_speech_threshold |-> a.decoding.no_speech_threshold,
     condition_on_previous_text |-> a.decoding.condition_on_previous_text,
     initial_prompt |-> a.decoding.initial_prompt,
     prefix |-> None,
     suppress_blank |-> TRUE,
     suppress_tokens |-> <<-1>>,
     without_timestamps |-> FALSE,
     max_initial_timestamp |-> 10,
     word_timestamps |-> a.decoding.word_timestamps,
     vad_filter |-> a.decoding.enable_vad,
     vad_parameters |-> a.decoding.vad_parameters]

\* Lines 158-162: the keyword arguments of the translation pass.
TranslateKwargs(a, temperature) ==
    [audio |-> a.audio, task |-> "translate", temperature |-> temperature]

\* One call of model.transcribe as the model instance sees it.
Call(m, kwargs) == [model_id |-> m.id, kwargs |-> kwargs]

serialize_segments(transcript_) ==
    [i \in 1..Len(transcript_) |->
        [id |-> transcript_[i].id, start |-> transcript_[i].start,
         end |-> transcript_[i].end, text |-> transcript_[i].text]]

\* Lines 176-187: the words of every segment, in order.
RECURSIVE WordTimestamps(_)
WordTimestamps(segments) ==
    IF segments = <<>> THEN <<>>
    ELSE Head(segments).words \o WordTimestamps(Tail(segments))

\* Line 172: the device entry of the result.
ResultDevice(m, cuda) == IF cuda THEN "cuda" ELSE "cpu"

\* Lines 167-187: the result mapping.
Results(a, m, out, transcription_output, translation_output, cuda) ==
    [segments |-> serialize_segments(out.segments),
     detected_language |-> out.language,
     transcription |-> transcription_output,
     translation |-> translation_output,
     device |-> ResultDevice(m, cuda),
     model |-> a.model_name,
     word_timestamps |-> IF a.decoding.word_timestamps
                         THEN Some(WordTimestamps(out.segments))
                         ELSE None]

NameIsAvailable_AnyName(model_name) == TRUE

\* Line 98: the model-name test.
NameIsAvailable(model_name) == model_name \in AVAILABLE_MODELS

ModelIsNone_Never(m) == FALSE

\* Line 105: the loaded-model test.
ModelIsNone(m) == m = NoModel

TranslateRequested_Always(a) == TRUE

\* Line 157: whether the translation pass runs.
TranslateRequested(a) == a.translate

LockExit_Kept(lock, r) == lock

\* Leaving the "with self.model_lock" block, normally or by an exception.
LockExit(lock, r) == IF lock = r THEN 0 ELSE lock

ModelAfterLoad_AssignedEarly(m, ok, instance) == instance

\* Lines 53-69: self.model after the load attempt; a constructor that raises
\* assigns nothing.
ModelAfterLoad(m, ok, instance) == IF ok THEN instance ELSE m

VARIABLES
    model,            \* self.model
    model_lock,       \* self.model_lock: 0 when free, else the request holding it
    cuda,             \* what rp_cuda.is_available() returns now
    loads,            \* successful loads so far (numbers the instances)
    setup,            \* the setup() call in progress or last made
    req,              \* each predict request: position, arguments, locals
    transcript,       \* the segment sequence handed to format_segments
    fmt_type,         \* the format selector handed to format_segments
    fmt_out           \* what format_segments returned

vars == <<model, model_lock, cuda, loads, setup, req, transcript, fmt_type, fmt_out>>

predictor_vars == <<model, model_lock, cuda, loads, setup, req>>
fmt_vars == <<transcript, fmt_type, fmt_out>>

IdleRequest ==
    [pc |-> "idle", args |-> PredictArgs("base", FALSE, DefaultDecoding),
     error |-> "none", acquires |-> 0, seen |-> "unchecked",
     model |-> NoModel, temperature |-> <<>>,
     calls |-> <<>>, out |-> None, translated |-> None, results |-> None]

IdleSetup ==
    [pc |-> "idle", calls |-> 0, before |-> NoModel, attempts |-> 0,
     load_failed |-> FALSE, cleared |-> "pending", cleanup |-> "pending"]

Init ==
    /\ model = NoModel
    /\ model_lock = 0
    /\ cuda \in BOOLEAN
    /\ loads = 0
    /\ setup = IdleSetup
    /\ req = [r \in Requests |-> IdleRequest]
    /\ transcript = <<>>
    /\ fmt_type = "none"
    /\ fmt_out = <<>>

\* --- the platform

\* The accelerator appears or disappears (driver fault, device reset).
CudaChanges ==
    /\ cuda' = ~cuda
    /\ UNCHANGED <<model, model_lock, loads, setup, req, fmt_vars>>

\* --- setup()

\* Lines 47-51 and 65-68: gc.collect() and torch.cuda.empty_cache(), run only
\* when cuda is available.
ClearCache == IF cuda THEN "done" ELSE "skipped"

\* Lines 42-51: setup is entered and clears the cache before loading.
SetupCall ==
    /\ setup.pc \in {"idle", "returned", "raised"}
    /\ setup.calls < MaxSetupCalls
    /\ setup' = [pc |-> "load", calls |-> setup.calls + 1, before |-> model,
                 attempts |-> 0, load_failed |-> FALSE, cleared |-> ClearCache,
                 cleanup |-> "pending"]
    /\ UNCHANGED <<model, model_lock, cuda, loads, req, fmt_vars>>

\* Lines 53-63: the one load attempt; it succeeds or the constructor raises.
SetupLoad ==
    /\ setup.pc = "load"
    /\ \E ok \in BOOLEAN :
        /\ model' = ModelAfterLoad(model, ok, WhisperModel(loads + 1, cuda))
        /\ loads' = IF ok THEN loads + 1 ELSE loads
        /\ setup' = [setup EXCEPT !.pc = IF ok THEN "returned" ELSE "except",
                                  !.attempts = @ + 1,
                                  !.load_failed = ~ok]
    /\ UNCHANGED <<model_lock, cuda, req, fmt_vars>>

\* Lines 64-69: the handler clears memory, then raises RuntimeError.
SetupExcept ==
    /\ setup.pc = "except"
    /\ setup' = [setup EXCEPT !.pc = "raised", !.cleanup = ClearCache]
    /\ UNCHANGED <<model, model_lock, cuda, loads, req, fmt_vars>>

\* --- predict()

\* Lines 71-101: predict is entered and tests the model name.
PredictCall(r, a) ==
    /\ req[r].pc = "idle"
    /\ req' = [req EXCEPT ![r] =
                 IF NameIsAvailable(a.model_name)
                 THEN [@ EXCEPT !.pc = "acquire", !.args = a]
                 ELSE [@ EXCEPT !.pc = "raised", !.args = a, !.error = "ValueError"]]
    /\ UNCHANGED <<model, model_lock, cuda, loads, setup, fmt_vars>>

\* Line 104: the lock is taken once it is free.
AcquireLock(r) ==
    /\ req[r].pc = "acquire"
    /\ model_lock = 0
    /\ model_lock' = r
    /\ req' = [req EXCEPT ![r].pc = "locked", ![r].acquires = @ + 1]
    /\ UNCHANGED <<model, cuda, loads, setup, fmt_vars>>

\* What self.model held when the request tested it (kept for the record).
Seen(m) == IF m = NoModel THEN "none" ELSE "loaded"

\* Lines 105-106: the test of self.model; RuntimeError leaves the with block.
CheckModel(r) ==
    /\ req[r].pc = "locked"
    /\ IF ModelIsNone(model)
       THEN /\ req' = [req EXCEPT ![r].pc = "raised", ![r].error = "RuntimeError",
                                  ![r].seen = Seen(model)]
            /\ model_lock' = LockExit(model_lock, r)
       ELSE /\ req' = [req EXCEPT ![r].pc = "checked", ![r].seen = Seen(model)]
            /\ UNCHANGED model_lock
    /\ UNCHANGED <<model, cuda, loads, setup, fmt_vars>>

\* Lines 107-147: the reference is read, the with block left, the temperature
\* configuration computed and the transcription pass issued.
ReadModel(r) ==
    /\ req[r].pc = "checked"
    /\ model_lock' = LockExit(model_lock, r)
    /\ LET temperature ==
               TemperatureConfig(req[r].args.decoding.temperature,
                   req[r].args.decoding.temperature_increment_on_fallback)
       IN req' = [req EXCEPT ![r].pc = "transcribing",
                             ![r].model = model,
                             ![r].temperature = temperature,
                             ![r].calls = Append(@, Call(model,
                                 TranscribeKwargs(req[r].args, temperature)))]
    /\ UNCHANGED <<model, cuda, loads, setup, fmt_vars>>

\* The result mapping of request q once both outputs are known.
Finish(q, out, translated) ==
    [q EXCEPT !.pc = "done", !.out = Some(out), !.translated = translated,
              !.results = Some(Results(q.args, q.model, out,
                  format_segments(q.args.decoding.transcription, out.segments),
                  IF translated = None THEN None
                  ELSE Some(format_segments(q.args.decoding.translation,
                                            translated[1].segments)),
                  cuda))]

\* Lines 148-162 (and 167-189 without translation): the transcription pass
\* returns; the translation pass is issued when requested.
FinishTranscribe(r, out) ==
    /\ req[r].pc = "transcribing"
    /\ req' = [req EXCEPT ![r] =
                 IF TranslateRequested(@.args)
                 THEN [@ EXCEPT !.pc = "translating", !.out = Some(out),
                                !.calls = Append(@, Call(req[r].model,
                                    TranslateKwargs(req[r].args, req[r].temperature)))]
                 ELSE Finish(@, out, None)]
    /\ UNCHANGED <<model, model_lock, cuda, loads, setup, fmt_vars>>

\* Lines 163-189: the translation pass returns and the result is built.
FinishTranslate(r, out) ==
    /\ req[r].pc = "translating"
    /\ req' = [req EXCEPT ![r] = Finish(@, @.out[1], Some(out))]
    /\ UNCHANGED <<model, model_lock, cuda, loads, setup, fmt_vars>>

Setup == SetupCall \/ SetupLoad \/ SetupExcept

\* Concurrent requests, each a call with default keywords.
Next ==
    \/ CudaChanges
    \/ Setup
    \/ \E r \in Requests, a \in DefaultInputs : PredictCall(r, a)
    \/ \E r \in Requests : AcquireLock(r)
    \/ \E r \in Requests : CheckModel(r)
    \/ \E r \in Requests : ReadModel(r)
    \/ \E r \in Requests : FinishTranscribe(r, ShortOutput)

Spec == Init /\ [][Next]_vars

\* One request, over every input and every output of the external model.
NextCall ==
    \/ CudaChanges
    \/ Setup
    \/ \E a \in Inputs : PredictCall(1, a)
    \/ AcquireLock(1)
    \/ CheckModel(1)
    \/ ReadModel(1)
    \/ \E out \in TranscribeOutputs : FinishTranscribe(1, out)
    \/ \E out \in TranscribeOutputs : FinishTranslate(1, out)

SpecCall == Init /\ [][NextCall]_vars

\* --- the formatters on their own

Texts(n) == UNION { [1..k -> Alphabet] : k \in 0..n }

\* The two segments of a timeline: under an hour, and across the hour mark.
Spans == << [start |-> 0, end |-> 1500], [start |-> 3599999, end |-> 3723004] >>

\* The transcripts of n segments placed from position i on, of at most
\* budget characters of text in all.
RECURSIVE TranscriptsFrom(_, _, _)
TranscriptsFrom(i, n, budget) ==
    IF n = 0 THEN { <<>> }
    ELSE UNION { { <<Segment(i - 1, Spans[((i - 1) % 2) + 1].start,
                             Spans[((i - 1) % 2) + 1].end, t, <<>>)>> \o rest :
                     rest \in TranscriptsFrom(i + 1, n - 1, budget - Len(t)) } :
                 t \in Texts(budget) }

Transcripts == UNION { TranscriptsFrom(1, n, MaxChars) : n \in 0..MaxSegs }

InitFmt ==
    /\ model = NoModel
    /\ model_lock = 0
    /\ cuda = FALSE
    /\ loads = 0
    /\ setup = IdleSetup
    /\ req = [r \in Requests |-> IdleRequest]
    /\ transcript \in Transcripts
    /\ fmt_type = "none"
    /\ fmt_out = <<>>

\* Lines 213-228: one call of format_segments on the transcript.
FormatSegments(format_type) ==
    /\ fmt_type' = format_type
    /\ fmt_out' = format_segments(format_type, transcript)
    /\ UNCHANGED <<predictor_vars, transcript>>

NextFmt == \E format_type \in FormatTypes : FormatSegments(format_type)

SpecFmt == InitFmt /\ [][NextFmt]_vars

\* ------------------------------------------------------------- properties

Past(q) == q.pc \notin {"idle", "acquire", "locked"}

InTranscribe(q) == q.pc \in {"transcribing", "translating"}

\* C1: a predict call whose model_name is outside AVAILABLE_MODELS (the default
\* "base" included) raises ValueError and nothing else happens: the lock was
\* never taken by it, the model reference never tested, no transcribe call
\* issued and no result built, whatever self.model holds; and ValueError is
\* raised for no other call.
C1_InvalidNameRaisesFirst ==
    \A r \in Requests :
        LET q == req[r] IN
        /\ (q.pc # "idle" /\ q.args.model_name \notin AVAILABLE_MODELS) =>
               /\ q.pc = "raised"
               /\ q.error = "ValueError"
               /\ q.acquires = 0
               /\ model_lock # r
               /\ q.seen = "unchecked"
               /\ q.calls = <<>>
               /\ q.results = None
        /\ q.error = "ValueError" => q.args.model_name \notin AVAILABLE_MODELS

\* The default model name is rejected while no model is loaded: the invalid
\* name wins over the missing model.
C1_Witness ==
    \E r \in Requests :
        /\ req[r].error = "ValueError"
        /\ req[r].args.model_name = "base"
        /\ model = NoModel

C3_LockOnlyAroundCheck ==
    \A r \in Requests :
        LET q == req[r] IN
        /\ model_lock = r <=> q.pc \in {"locked", "checked"}
        /\ (InTranscribe(q) \/ q.pc \in {"raised", "done"}) => model_lock # r
        /\ (q.pc = "acquire" /\ model_lock # 0) =>
               req[model_lock].pc \in {"locked", "checked"}

\* Two requests are inside transcribe on the same model instance while a third
\* party could take the lock.
C3_Witness ==
    \E r1, r2 \in Requests :
        /\ r1 # r2
        /\ req[r1].pc = "transcribing"
        /\ req[r2].pc = "transcribing"
        /\ req[r1].model = req[r2].model
        /\ req[r1].model # NoModel
        /\ model_lock = 0

C5_TranslationPass ==
    \A r \in Requests :
        LET q == req[r] IN
        /\ q.pc = "transcribing" =>
               /\ Len(q.calls) = 1
               /\ q.calls[1].kwargs.task = "transcribe"
               /\ q.out = None
        /\ q.pc = "translating" => q.args.translate
        /\ q.pc \in {"translating", "done"} =>
               /\ q.out # None
               /\ Len(q.calls) = IF q.args.translate THEN 2 ELSE 1
               /\ q.calls[1].kwargs.task = "transcribe"
               /\ \A i \in 2..Len(q.calls) :
                      /\ q.calls[i].kwargs.task = "translate"
                      /\ q.calls[i].model_id = q.calls[1].model_id
                      /\ q.calls[i].kwargs.temperature = q.calls[1].kwargs.temperature
        /\ q.pc = "done" =>
               /\ q.args.translate <=> q.translated # None
               /\ q.results[1].transcription =
                      format_segments(q.args.decoding.transcription, q.out[1].segments)
               /\ q.results[1].translation =
                      IF q.args.translate
                      THEN Some(format_segments(q.args.decoding.translation,
                                                q.translated[1].segments))
                      ELSE None

\* A call with translate set and two different selectors returned after both
\* passes saw the same segments, with two different texts.
C5_Witness ==
    \E r \in Requests :
        LET q == req[r] IN
        /\ q.pc = "done"
        /\ q.args.translate
        /\ q.args.decoding.transcription = "srt"
        /\ q.args.decoding.translation = "vtt"
        /\ q.translated = q.out
        /\ q.results[1].translation # Some(q.results[1].transcription)
        /\ Len(q.calls[1].kwargs.temperature) = 1

DigitValue(c) == CASE c = "0" -> 0 [] c = "1" -> 1 [] c = "2" -> 2 [] c = "3" -> 3
                   [] c = "4" -> 4 [] c = "5" -> 5 [] c = "6" -> 6 [] c = "7" -> 7
                   [] c = "8" -> 8 [] c = "9" -> 9

IsDigit(c) == c \in {"0", "1", "2", "3", "4", "5", "6", "7", "8", "9"}

\* The number a digit string writes.
RECURSIVE Number(_)
Number(s) ==
    IF s = <<>> THEN 0
    ELSE 10 * Number(SubSeq(s, 1, Len(s) - 1)) + DigitValue(s[Len(s)])

SignedNumber(s) == IF s # <<>> /\ Head(s) = "-" THEN 0 - Number(Tail(s)) ELSE Number(s)

\* s cut at every occurrence of the character c
RECURSIVE SplitAt(_, _, _)
SplitAt(s, c, cur) ==
    IF s = <<>> THEN <<cur>>
    ELSE IF Head(s) = c THEN <<cur>> \o SplitAt(Tail(s), c, <<>>)
    ELSE SplitAt(Tail(s), c, Append(cur, Head(s)))

\* The token ids a suppress_tokens string such as "-1" or "0,1" names.
TokenIds(s) ==
    LET parts == SplitAt(s, ",", <<>>) IN
    [i \in 1..Len(parts) |-> SignedNumber(parts[i])]

\* C6: the transcription pass receives, for each decoding option, the value
\* the caller passed to predict.
C6_TranscribeReceivesCallerParameters ==
    \A r \in Requests :
        req[r].calls # <<>> =>
            LET k == req[r].calls[1].kwargs
                d == req[r].args.decoding
            IN /\ k.language = d.language
               /\ k.beam_size = d.beam_size
               /\ k.best_of = d.best_of
               /\ k.patience = d.patience
               /\ k.length_penalty = d.length_penalty
               /\ k.suppress_tokens = TokenIds(d.suppress_tokens)
               /\ k.initial_prompt = d.initial_prompt
               /\ k.condition_on_previous_text = d.condition_on_previous_text
               /\ k.compression_ratio_threshold = d.compression_ratio_threshold
               /\ k.log_prob_threshold = d.logprob_threshold
               /\ k.no_speech_threshold = d.no_speech_threshold
               /\ k.vad_filter = d.enable_vad
               /\ k.vad_parameters = d.vad_parameters
               /\ k.word_timestamps = d.word_timestamps

\* C9: once self.model holds an instance it is never replaced by another one
\* nor reset, and no step of a predict call changes it.
C9_ModelSetOnce ==
    [][ /\ model # NoModel => model' = model
        /\ req' # req => model' = model ]_vars

\* C10: the device entry of a returned result is the device the model
\* instance that served the call was loaded on.
C10_DeviceIsTheModelsDevice ==
    \A r \in Requests :
        req[r].pc = "done" => req[r].results[1].device = req[r].model.device

\* The lines of a text, each ended by a newline; text after the last newline
\* counts as one more line.
RECURSIVE LinesOf(_, _)
LinesOf(s, cur) ==
    IF s = <<>> THEN (IF cur = <<>> THEN <<>> ELSE <<cur>>)
    ELSE IF Head(s) = NL THEN <<cur>> \o LinesOf(Tail(s), <<>>)
    ELSE LinesOf(Tail(s), Append(cur, Head(s)))

Lines(s) == LinesOf(s, <<>>)

Contains(s, p) ==
    \E i \in 1..(Len(s) - Len(p) + 1) : SubSeq(s, i, i + Len(p) - 1) = p

\* The text line of block k of an srt (4 lines a block) or vtt (3 lines) text.
SrtTextLine(out, k) == Lines(out)[4 * (k - 1) + 3]
VttTextLine(out, k) == Lines(out)[3 * (k - 1) + 2]

\* C7: in srt and vtt output the text line of every block holds no "-->".
C7_NoArrowInCueText ==
    /\ fmt_type = "srt" =>
           \A k \in 1..Len(transcript) : ~Contains(SrtTextLine(fmt_out, k), Arrow)
    /\ fmt_type = "vtt" =>
           \A k \in 1..Len(transcript) : ~Contains(VttTextLine(fmt_out, k), Arrow)

\* ts reads HH:MM:SS<marker>mmm, the hours at least two digits, and writes ms.
IsTimestamp(ts, marker, ms) ==
    LET n == Len(ts) IN
    /\ n >= 12
    /\ ts[n - 3] = marker
    /\ ts[n - 6] = ":"
    /\ ts[n - 9] = ":"
    /\ \A i \in (1..n) \ {n - 3, n - 6, n - 9} : IsDigit(ts[i])
    /\ Number(SubSeq(ts, n - 8, n - 7)) < 60
    /\ Number(SubSeq(ts, n - 5, n - 4)) < 60
    /\ ms = Number(SubSeq(ts, 1, n - 10)) * 3600000
              + Number(SubSeq(ts, n - 8, n - 7)) * 60000
              + Number(SubSeq(ts, n - 5, n - 4)) * 1000
              + Number(SubSeq(ts, n - 2, n))

\* line reads "start --> end" for the segment's two times.
IsTimestampLine(line, marker, segment) ==
    \E i \in 1..Len(line) :
        /\ SubSeq(line, i, i + 4) = ArrowSep
        /\ IsTimestamp(SubSeq(line, 1, i - 1), marker, segment.start)
        /\ IsTimestamp(SubSeq(line, i + 5, Len(line)), marker, segment.end)

\* The text between the first and the last character that is not whitespace.
Trimmed(text) ==
    LET inked == { i \in 1..Len(text) : text[i] \notin Whitespace } IN
    IF inked = {} THEN <<>>
    ELSE SubSeq(text, CHOOSE i \in inked : \A j \in inked : i <= j,
                      CHOOSE i \in inked : \A j \in inked : i >= j)

Newlines(s) == Cardinality({ i \in 1..Len(s) : s[i] = NL })

\* An srt line sequence as vtt: every index line dropped, the comma of every
\* timestamp line turned into a period.
VttOfSrtLines(L) ==
    LET kept == [j \in 1..(3 * (Len(L) \div 4)) |->
                    L[4 * ((j - 1) \div 3) + ((j - 1) % 3) + 2]]
    IN [j \in 1..Len(kept) |->
           IF j % 3 = 1
           THEN [i \in 1..Len(kept[j]) |-> IF kept[j][i] = "," THEN "." ELSE kept[j][i]]
           ELSE kept[j]]

====
